---- MODULE Spec2Model ----
(***************************************************************************)
(* GPGSigningServiceClient of examples/python/manage_keys.py: the client   *)
(* object (credential + retrying session), its six operations, the retry   *)
(* loop the mounted HTTPAdapter runs for each session request, and the     *)
(* key store of the remote service the requests act on.                    *)
(*                                                                         *)
(* Python strings are sequences of one-character strings; None is the      *)
(* sentinel sequence <<"None">>, which is no string of characters.         *)
(***************************************************************************)
EXTENDS Integers, Sequences, FiniteSets, TLC

VARIABLES
    pc,             \* "new" (not constructed), "idle", "wait" (request in flight), "done"
    admin_token,    \* self.admin_token
    op,             \* the client operation being called, with its arguments
    frame,          \* the client method whose session request is in flight
    calls,          \* session.get/post/delete requests issued by the current operation
    retries_total,  \* Retry.total left for the request in flight
    resps,          \* what the wire gave for each attempt of the current request
    outcome,        \* "none", "ok", or the exception the operation raised
    results,        \* rotate_keys' local dict `results`, as its set of keys
    result,         \* what the operation returned, as a set of keys
    serverKeys,     \* key ids stored by the remote service
    keys0           \* serverKeys when the current operation was called

vars == <<pc, admin_token, op, frame, calls, retries_total, resps, outcome,
          results, result, serverKeys, keys0>>

----
\* Values

None == <<"None">>

Truthy(x) == x # None /\ x # <<>>

Tok == <<"t">>

KeyA == <<"0","1","2","3","4","5","6","7","8","9","A","B","C","D","E","F">>
KeyB == <<"a","b","c","d","e","f","0","1","2","3","4","5","6","7","8","9">>
BadShort == <<"0","1","2","3","4","5","6","7","8","9","A","B","C","D","E">>
BadHex == <<"0","1","2","3","4","5","6","7","8","9","A","B","C","D","E","g">>

KeyIds == {KeyA, KeyB, BadShort, BadHex, <<>>}

TokenArgs == {None, <<>>, Tok}

Filters == {None, <<>>, <<"s">>}

GraceHours == {0, 24}

\* (limit, offset) pairs: the defaults, and each of the two at the other of
\* zero / non-zero
Pages == {[limit |-> 100, offset |-> 0], [limit |-> 0, offset |-> 100]}

\* Strings handed to validate_key_id on its own: every length up to MaxLen,
\* filled with one character of Alphabet, with at most one position replaced
\* by another. Alphabet has the ends of the three hexadecimal ranges and
\* characters lying just outside them.
MaxLen == 17

Alphabet == {"0", "9", "A", "F", "a", "f", "/", ":", "@", "G", "_", "g"}

Fill(n, b, p, c) == [i \in 1..n |-> IF i = p THEN c ELSE b]

TestStrings ==
    { Fill(n, b, p, c) : n \in 0..MaxLen, b \in Alphabet, p \in 1..MaxLen, c \in Alphabet }

----
\* The session: retry policy and responses

\* Faulty variant: one retry more than configured.
retry_strategy_total4 ==
    [total |-> 4,
     status_forcelist |-> {429, 503},
     allowed_methods |-> {"GET", "POST", "DELETE"}]

retry_strategy ==
    [total |-> 3,
     status_forcelist |-> {429, 503},
     allowed_methods |-> {"GET", "POST", "DELETE"}]

RETRY_AFTER_STATUS_CODES == {413, 429, 503}

\* A connection-level failure of one attempt (no response at all).
ConnError == [status |-> 0, retry_after |-> FALSE, body |-> "none"]

\* body: "full" a JSON object with every expected field, "partial" a JSON
\* object lacking them, "bad" not JSON.
Responses ==
    { [status |-> 200, retry_after |-> FALSE, body |-> b] : b \in {"full", "partial", "bad"} }
    \cup { [status |-> s, retry_after |-> FALSE, body |-> "bad"] : s \in {304} }
    \cup { [status |-> s, retry_after |-> FALSE, body |-> "full"] : s \in {404, 429, 503} }
    \cup { [status |-> 413, retry_after |-> ra, body |-> "full"] : ra \in BOOLEAN }
    \cup { ConnError }

is_retry(method, status_code, has_retry_after, total) ==
    IF method \notin retry_strategy.allowed_methods THEN FALSE
    ELSE IF status_code \in retry_strategy.status_forcelist THEN TRUE
    ELSE /\ total # 0
         /\ has_retry_after
         /\ status_code \in RETRY_AFTER_STATUS_CODES

raise_for_status(r) ==
    IF r.status >= 400 /\ r.status < 600 THEN "HTTPError" ELSE "ok"

json(r) == IF r.body = "bad" THEN "JSONDecodeError" ELSE "ok"

----
\* Client helpers

HexDigits ==
    {"0","1","2","3","4","5","6","7","8","9",
     "A","B","C","D","E","F","a","b","c","d","e","f"}

\* Faulty variant: lower-case digits not accepted.
validate_key_id_upper(key_id) ==
    IF key_id = None THEN "TypeError"
    ELSE IF Len(key_id) # 16 THEN "ValueError"
    ELSE IF ~(\A i \in 1..Len(key_id) :
                key_id[i] \in HexDigits \ {"a","b","c","d","e","f"}) THEN "ValueError"
    ELSE "ok"

validate_key_id(key_id) ==
    IF key_id = None THEN "TypeError"
    ELSE IF Len(key_id) # 16 THEN "ValueError"
    ELSE IF ~(\A i \in 1..Len(key_id) : key_id[i] \in HexDigits) THEN "ValueError"
    ELSE "ok"

\* Faulty variant: headers built without looking at the token.
admin_headers_unchecked == "ok"

admin_headers == IF ~Truthy(admin_token) THEN "ValueError" ELSE "ok"

EmptyParams == [x \in {} |-> x]

Request(method, endpoint, key_id, json_key_id, params) ==
    [method |-> method, endpoint |-> endpoint, key_id |-> key_id,
     json_key_id |-> json_key_id, params |-> params]

NoOp ==
    [name |-> "none", key_id |-> None, old_key_id |-> None,
     grace_period_hours |-> 0, action |-> None, subject |-> None,
     start_date |-> None, end_date |-> None, limit |-> 0, offset |-> 0]

\* The executing call, as a record the operations transform.
Fresh ==
    [pc |-> "idle", frame |-> "none", calls |-> <<>>, retries_total |-> 0,
     resps |-> <<>>, outcome |-> "none", results |-> {}, result |-> {}]

Cur ==
    [pc |-> pc, frame |-> frame, calls |-> calls, retries_total |-> retries_total,
     resps |-> resps, outcome |-> outcome, results |-> results, result |-> result]

Apply(s) ==
    /\ pc' = s.pc
    /\ frame' = s.frame
    /\ calls' = s.calls
    /\ retries_total' = s.retries_total
    /\ resps' = s.resps
    /\ outcome' = s.outcome
    /\ results' = s.results
    /\ result' = s.result

Raise(s, e) == [s EXCEPT !.pc = "done", !.outcome = e]

Return(s, v) == [s EXCEPT !.pc = "done", !.outcome = "ok", !.result = v]

session_request(s, fr, req) ==
    [s EXCEPT !.pc = "wait", !.frame = fr, !.calls = Append(@, req),
              !.retries_total = retry_strategy.total, !.resps = <<>>]

----
\* Client operations: the part of each method that runs before its request
\* is on the wire (validation, headers, the request itself)

upload_key(s, key_id) ==
    IF validate_key_id(key_id) # "ok" THEN Raise(s, validate_key_id(key_id))
    ELSE IF admin_headers # "ok" THEN Raise(s, admin_headers)
    ELSE session_request(s, "upload_key",
             Request("POST", "/admin/keys", None, key_id, EmptyParams))

list_keys(s) ==
    IF admin_headers # "ok" THEN Raise(s, admin_headers)
    ELSE session_request(s, "list_keys",
             Request("GET", "/admin/keys", None, None, EmptyParams))

get_public_key(s, key_id) ==
    IF admin_headers # "ok" THEN Raise(s, admin_headers)
    ELSE session_request(s, "get_public_key",
             Request("GET", "/admin/keys/{key_id}/public", key_id, None, EmptyParams))

\* Faulty variant: the request goes out before the key id is looked at.
delete_key_unvalidated(s, key_id) ==
    IF admin_headers # "ok" THEN Raise(s, admin_headers)
    ELSE session_request(s, "delete_key",
             Request("DELETE", "/admin/keys/{key_id}", key_id, None, EmptyParams))

delete_key(s, key_id) ==
    IF validate_key_id(key_id) # "ok" THEN Raise(s, validate_key_id(key_id))
    ELSE IF admin_headers # "ok" THEN Raise(s, admin_headers)
    ELSE session_request(s, "delete_key",
             Request("DELETE", "/admin/keys/{key_id}", key_id, None, EmptyParams))

\* Faulty variant: limit treated like the optional filters.
audit_params_optional_limit(action, subject, start_date, end_date, limit, offset) ==
    (IF Truthy(end_date) THEN "endDate" :> end_date ELSE EmptyParams)
    @@ (IF Truthy(start_date) THEN "startDate" :> start_date ELSE EmptyParams)
    @@ (IF Truthy(subject) THEN "subject" :> subject ELSE EmptyParams)
    @@ (IF Truthy(action) THEN "action" :> action ELSE EmptyParams)
    @@ (IF limit # 0 THEN "limit" :> limit ELSE EmptyParams) @@ ("offset" :> offset)

audit_params(action, subject, start_date, end_date, limit, offset) ==
    (IF Truthy(end_date) THEN "endDate" :> end_date ELSE EmptyParams)
    @@ (IF Truthy(start_date) THEN "startDate" :> start_date ELSE EmptyParams)
    @@ (IF Truthy(subject) THEN "subject" :> subject ELSE EmptyParams)
    @@ (IF Truthy(action) THEN "action" :> action ELSE EmptyParams)
    @@ ("limit" :> limit) @@ ("offset" :> offset)

get_audit_logs(s, action, subject, start_date, end_date, limit, offset) ==
    IF admin_headers # "ok" THEN Raise(s, admin_headers)
    ELSE session_request(s, "get_audit_logs",
             Request("GET", "/admin/audit", None, None,
                     audit_params(action, subject, start_date, end_date, limit, offset)))

\* Faulty variant: the old key is deleted first.
rotate_keys_delete_first(s, new_key_id, old_key_id, grace_period_hours) ==
    IF Truthy(old_key_id) THEN delete_key(s, old_key_id) ELSE upload_key(s, new_key_id)

rotate_keys(s, new_key_id, old_key_id, grace_period_hours) ==
    upload_key(s, new_key_id)

----
\* Client operations: the part of each method that runs once the session
\* has handed it response r

\* Faulty variant: raise_for_status() left out.
method_tail_unchecked(fr, r) ==
    IF fr = "get_public_key" THEN "ok" ELSE json(r)

\* raise_for_status(), then the parse of the body the method does
method_tail(fr, r) ==
    IF raise_for_status(r) # "ok" THEN raise_for_status(r)
    ELSE IF fr = "get_public_key" THEN "ok"
    ELSE json(r)

ReturnType(fr) ==
    CASE fr = "upload_key" -> {"KeyResponse"}
      [] fr = "list_keys" -> {"list[KeyListItem]"}
      [] fr = "get_public_key" -> {"str"}
      [] fr = "delete_key" -> {"KeyDeletionResponse"}
      [] fr = "get_audit_logs" -> {"AuditLogsResponse"}

\* Faulty variant: the grace period is honoured by leaving the delete to a later run.
rotate_after_upload_deferred(s, r) ==
    LET s1 == [s EXCEPT !.results = @ \cup {"new_key"}] IN
    IF r.body = "partial" THEN Raise(s1, "KeyError")
    ELSE IF Truthy(op.old_key_id) /\ op.grace_period_hours = 0
         THEN delete_key(s1, op.old_key_id)
    ELSE Return(s1, s1.results)

\* Faulty variant: a delete step whatever old_key_id is, falling back on the new key.
rotate_after_upload_always(s, r) ==
    LET s1 == [s EXCEPT !.results = @ \cup {"new_key"}] IN
    IF r.body = "partial" THEN Raise(s1, "KeyError")
    ELSE delete_key(s1, IF Truthy(op.old_key_id) THEN op.old_key_id ELSE op.key_id)

\* rotate_keys after upload_key returned the parsed body of r
rotate_after_upload(s, r) ==
    LET s1 == [s EXCEPT !.results = @ \cup {"new_key"}] IN
    IF r.body = "partial" THEN Raise(s1, "KeyError")
    ELSE IF Truthy(op.old_key_id) THEN delete_key(s1, op.old_key_id)
    ELSE Return(s1, s1.results)

\* rotate_keys after delete_key returned
rotate_after_delete(s, r) ==
    LET s1 == [s EXCEPT !.results = @ \cup {"deleted"}] IN
    Return(s1, s1.results)

\* Faulty variant: a failed delete step of rotate_keys is swallowed and the partial
\* results are returned.
deliver_swallow(s, r) ==
    LET e == method_tail(s.frame, r) IN
    IF e # "ok" /\ op.name = "rotate_keys" /\ s.frame = "delete_key"
        THEN Return(s, s.results)
    ELSE IF e # "ok" THEN Raise(s, e)
    ELSE IF op.name # "rotate_keys" THEN Return(s, ReturnType(s.frame))
    ELSE IF s.frame = "upload_key" THEN rotate_after_upload(s, r)
    ELSE rotate_after_delete(s, r)

deliver(s, r) ==
    LET e == method_tail(s.frame, r) IN
    IF e # "ok" THEN Raise(s, e)
    ELSE IF op.name # "rotate_keys" THEN Return(s, ReturnType(s.frame))
    ELSE IF s.frame = "upload_key" THEN rotate_after_upload(s, r)
    ELSE rotate_after_delete(s, r)

\* One attempt of the request in flight has ended with r: the adapter's
\* urlopen retries it, gives up, or hands the response to the method.
urlopen(s, r) ==
    LET s1 == [s EXCEPT !.resps = Append(@, r)]
        method == s.calls[Len(s.calls)].method
    IN
    IF r = ConnError THEN
        IF s.retries_total - 1 < 0 THEN Raise(s1, "ConnectionError")
        ELSE [s1 EXCEPT !.retries_total = @ - 1]
    ELSE IF is_retry(method, r.status, r.retry_after, s.retries_total) THEN
        IF s.retries_total - 1 < 0 THEN Raise(s1, "RetryError")
        ELSE [s1 EXCEPT !.retries_total = @ - 1]
    ELSE deliver(s1, r)

\* The remote service: a 2xx answer to an upload means the key is stored,
\* a 2xx answer to a delete means it is gone.
server_apply(keys, req, r) ==
    IF r.status # 200 THEN keys
    ELSE IF req.method = "POST" THEN keys \cup {req.json_key_id}
    ELSE IF req.method = "DELETE" THEN keys \ {req.key_id}
    ELSE keys

----
\* Actions

Init ==
    /\ pc = "new"
    /\ admin_token = None
    /\ op = NoOp
    /\ frame = "none"
    /\ calls = <<>>
    /\ retries_total = 0
    /\ resps = <<>>
    /\ outcome = "none"
    /\ results = {}
    /\ result = {}
    /\ serverKeys \in SUBSET {KeyA, KeyB}
    /\ keys0 = serverKeys

Construct ==
    /\ pc = "new"
    /\ \E arg \in TokenArgs, env \in TokenArgs :
          admin_token' = IF Truthy(arg) THEN arg ELSE env
    /\ pc' = "idle"
    /\ UNCHANGED <<op, frame, calls, retries_total, resps, outcome, results,
                   result, serverKeys, keys0>>

CanCall == pc = "idle"

Call(o, s) ==
    /\ CanCall
    /\ op' = o
    /\ Apply(s)
    /\ keys0' = serverKeys
    /\ UNCHANGED <<admin_token, serverKeys>>

UploadKey ==
    \E k \in KeyIds :
        Call([NoOp EXCEPT !.name = "upload_key", !.key_id = k], upload_key(Fresh, k))

ListKeys ==
    Call([NoOp EXCEPT !.name = "list_keys"], list_keys(Fresh))

GetPublicKey ==
    \E k \in KeyIds :
        Call([NoOp EXCEPT !.name = "get_public_key", !.key_id = k],
             get_public_key(Fresh, k))

DeleteKey ==
    \E k \in KeyIds :
        Call([NoOp EXCEPT !.name = "delete_key", !.key_id = k], delete_key(Fresh, k))

GetAuditLogs ==
    \E a \in Filters, su \in Filters, sd \in Filters, ed \in Filters,
       p \in Pages :
        Call([NoOp EXCEPT !.name = "get_audit_logs", !.action = a, !.subject = su,
                          !.start_date = sd, !.end_date = ed, !.limit = p.limit,
                          !.offset = p.offset],
             get_audit_logs(Fresh, a, su, sd, ed, p.limit, p.offset))

RotateKeys ==
    \E n \in KeyIds, o \in KeyIds \cup {None}, g \in GraceHours :
        Call([NoOp EXCEPT !.name = "rotate_keys", !.key_id = n, !.old_key_id = o,
                          !.grace_period_hours = g],
             rotate_keys(Fresh, n, o, g))

Respond ==
    /\ pc = "wait"
    /\ \E r \in Responses :
          /\ Apply(urlopen(Cur, r))
          /\ serverKeys' = server_apply(serverKeys, calls[Len(calls)], r)
    /\ UNCHANGED <<admin_token, op, keys0>>

\* The operation's value or exception reaches the caller; the client keeps
\* nothing of the call.
Finish ==
    /\ pc = "done"
    /\ op' = NoOp
    /\ Apply(Fresh)
    /\ keys0' = serverKeys
    /\ UNCHANGED <<admin_token, serverKeys>>

Next ==
    \/ Construct
    \/ UploadKey
    \/ ListKeys
    \/ GetPublicKey
    \/ DeleteKey
    \/ GetAuditLogs
    \/ RotateKeys
    \/ Respond
    \/ Finish

Spec == Init /\ [][Next]_vars

----
\* validate_key_id on its own, over TestStrings

InitValidate ==
    /\ pc = "idle"
    /\ admin_token = None
    /\ \E k \in TestStrings : op = [NoOp EXCEPT !.name = "validate_key_id", !.key_id = k]
    /\ frame = "none"
    /\ calls = <<>>
    /\ retries_total = 0
    /\ resps = <<>>
    /\ outcome = "none"
    /\ results = {}
    /\ result = {}
    /\ serverKeys = {}
    /\ keys0 = {}

ValidateKeyId ==
    /\ pc = "idle"
    /\ op.name = "validate_key_id"
    /\ pc' = "done"
    /\ outcome' = validate_key_id(op.key_id)
    /\ UNCHANGED <<admin_token, op, frame, calls, retries_total, resps, results,
                   result, serverKeys, keys0>>

NextValidate == ValidateKeyId

SpecValidate == InitValidate /\ [][NextValidate]_vars

----
\* Properties

\* Wire attempts made so far for the current session request
Attempts == Len(resps) + (IF pc = "wait" THEN 1 ELSE 0)

Success(r) == r.status = 200 /\ r.body = "full"

SingleOps == {"upload_key", "list_keys", "get_public_key", "delete_key", "get_audit_logs"}

IsHexDigit(c) ==
    \/ c \in {"0","1","2","3","4","5","6","7","8","9"}
    \/ c \in {"A","B","C","D","E","F"}
    \/ c \in {"a","b","c","d","e","f"}

IsPrefix(a, b) == Len(a) <= Len(b) /\ \A i \in 1..Len(a) : a[i] = b[i]

HasDelete == \E i \in 1..Len(calls) : calls[i].method = "DELETE"

\* The two requests of a rotation, in order
RotateCalls ==
    << Request("POST", "/admin/keys", None, op.key_id, EmptyParams),
       Request("DELETE", "/admin/keys/{key_id}", op.old_key_id, None, EmptyParams) >>

\* C1, first half: a single-request operation whose first response was a 429
\* and whose last response is a success returns its result, no error.
C1_RetryThenSuccess ==
    (/\ pc = "done"
     /\ op.name \in SingleOps
     /\ resps # <<>>
     /\ resps[1].status = 429
     /\ Success(resps[Len(resps)]))
    => (outcome = "ok" /\ result # {})

\* C1 as stated: retry-then-success returns the result, and a session request
\* answered only by 429/503 responses is attempted at most 3 times in total.
C1_Original ==
    /\ C1_RetryThenSuccess
    /\ (\A i \in 1..Len(resps) : resps[i].status \in {429, 503}) => Attempts <= 3

\* C1 amended: retry-then-success returns the result, and a session request is
\* attempted at most 4 times in total (the first attempt and 3 retries),
\* whatever the responses.
C1_Amended ==
    /\ C1_RetryThenSuccess
    /\ Attempts <= 4

C1_Witness ==
    /\ pc = "done"
    /\ op.name = "delete_key"
    /\ Len(resps) = 4
    /\ resps[1].status = 429
    /\ resps[2].status = 503
    /\ resps[3].status = 429
    /\ Success(resps[4])
    /\ outcome = "ok"

\* C2: an upload_key or delete_key call with a key id validate_key_id rejects
\* ends in ValueError with no request issued, token or no token; and no POST
\* or DELETE request ever carries a key id that validate_key_id rejects.
C2_ValidateBeforeRequest ==
    /\ (op.name \in {"upload_key", "delete_key"} /\ validate_key_id(op.key_id) # "ok")
       => /\ calls = <<>>
          /\ pc # "wait"
          /\ pc = "done" => outcome = "ValueError"
    /\ \A i \in 1..Len(calls) :
          /\ calls[i].method = "POST" => validate_key_id(calls[i].json_key_id) = "ok"
          /\ calls[i].method = "DELETE" => validate_key_id(calls[i].key_id) = "ok"

C2_Witness ==
    /\ pc = "done"
    /\ op.name = "delete_key"
    /\ op.key_id = BadHex
    /\ Truthy(admin_token)
    /\ outcome = "ValueError"
    /\ calls = <<>>

\* C3 as stated: a rotation that returns, called with any old_key_id that is
\* given (not None), has issued exactly the upload and then the delete.
C3_Original ==
    (/\ op.name = "rotate_keys"
     /\ op.old_key_id # None
     /\ pc = "done"
     /\ outcome = "ok")
    => calls = RotateCalls

\* C3 amended: with a non-empty old_key_id, a rotation issues nothing but the
\* upload followed by the delete of old_key_id, and when it returns it has
\* issued exactly these two and returns both results, for every
\* grace_period_hours.
C3_Amended ==
    (op.name = "rotate_keys" /\ Truthy(op.old_key_id))
    => /\ IsPrefix(calls, RotateCalls)
       /\ (pc = "done" /\ outcome = "ok")
          => (calls = RotateCalls /\ result = {"new_key", "deleted"})

C3_Witness ==
    /\ op.name = "rotate_keys"
    /\ op.old_key_id = KeyB
    /\ op.key_id = KeyA
    /\ op.grace_period_hours = 24
    /\ pc = "done"
    /\ outcome = "ok"
    /\ calls = RotateCalls

\* C4: a rotation without old_key_id never issues a DELETE and at most one
\* request; when it returns it has issued exactly the upload and returns a
\* record with the upload result and no deletion result.
C4_RotateWithoutOld ==
    (op.name = "rotate_keys" /\ op.old_key_id = None)
    => /\ ~HasDelete
       /\ Len(calls) <= 1
       /\ (pc = "done" /\ outcome = "ok")
          => /\ calls = << Request("POST", "/admin/keys", None, op.key_id, EmptyParams) >>
             /\ result = {"new_key"}

C4_Witness ==
    /\ op.name = "rotate_keys"
    /\ op.old_key_id = None
    /\ pc = "done"
    /\ outcome = "ok"
    /\ Len(calls) = 1
    /\ result = {"new_key"}

\* C5: validate_key_id raises ValueError exactly for the strings whose length
\* is not 16 or that hold a character outside 0-9, A-F, a-f, and returns
\* normally for the others.
C5_ValidateKeyId ==
    (pc = "done" /\ op.name = "validate_key_id")
    => LET k == op.key_id
           wellFormed == Len(k) = 16 /\ \A i \in 1..Len(k) : IsHexDigit(k[i])
       IN /\ wellFormed => outcome = "ok"
          /\ ~wellFormed => outcome = "ValueError"

C5_Witness ==
    /\ pc = "done"
    /\ op.name = "validate_key_id"
    /\ Len(op.key_id) = 16
    /\ op.key_id[1] = "f"
    /\ op.key_id[2] = "A"
    /\ outcome = "ok"

\* A response that is not 2xx and not one of the statuses the policy lists
TerminalAsStated(r) ==
    /\ r # ConnError
    /\ ~(r.status >= 200 /\ r.status < 300)
    /\ r.status \notin {429, 503}

\* A 4xx/5xx response other than 429 and 503, and other than a 413 that
\* carries a Retry-After header
Terminal(r) ==
    /\ r # ConnError
    /\ r.status >= 400 /\ r.status < 600
    /\ r.status \notin {429, 503}
    /\ ~(r.status = 413 /\ r.retry_after)

\* C6 as stated: in delete_key every non-2xx response outside {429, 503} ends
\* the call at once with HTTPError: it is the last attempt.
C6_Original ==
    frame = "delete_key"
    => \A i \in 1..Len(resps) :
          TerminalAsStated(resps[i])
          => (i = Len(resps) /\ pc = "done" /\ outcome = "HTTPError")

\* C6 amended: in delete_key a 404, and every 4xx/5xx response other than
\* 429, 503 and a 413 with Retry-After, ends the call at once with
\* HTTPError: no attempt follows it, so as a first response it is the only
\* attempt.
C6_Amended ==
    frame = "delete_key"
    => \A i \in 1..Len(resps) :
          Terminal(resps[i])
          => (i = Len(resps) /\ pc = "done" /\ outcome = "HTTPError")

C6_Witness ==
    /\ op.name = "delete_key"
    /\ pc = "done"
    /\ Len(resps) = 1
    /\ resps[1].status = 404
    /\ Len(calls) = 1
    /\ outcome = "HTTPError"

\* C7: on a client constructed without a credential every operation ends in
\* ValueError with no request issued.
C7_NoCredential ==
    (pc # "new" /\ ~Truthy(admin_token))
    => /\ calls = <<>>
       /\ pc # "wait"
       /\ pc = "done" => outcome = "ValueError"

C7_Witness ==
    /\ pc = "done"
    /\ admin_token = None
    /\ op.name = "get_audit_logs"
    /\ outcome = "ValueError"
    /\ calls = <<>>

FilterParams ==
    [action |-> op.action, subject |-> op.subject,
     startDate |-> op.start_date, endDate |-> op.end_date]

\* C8 as stated: the audit request has limit and offset, and a filter's
\* parameter exactly when the filter was provided (is not None).
C8_Original ==
    (op.name = "get_audit_logs" /\ calls # <<>>)
    => LET p == calls[1].params IN
       /\ {"limit", "offset"} \subseteq DOMAIN p
       /\ \A f \in DOMAIN FilterParams :
             (f \in DOMAIN p) <=> (FilterParams[f] # None)

\* C8 amended: the audit request has limit and offset with the values given,
\* a filter's parameter (with the filter's value) exactly when the filter was
\* provided as a non-empty string, and no other parameter.
C8_Amended ==
    (op.name = "get_audit_logs" /\ calls # <<>>)
    => LET p == calls[1].params IN
       /\ {"limit", "offset"} \subseteq DOMAIN p
       /\ p["limit"] = op.limit
       /\ p["offset"] = op.offset
       /\ DOMAIN p \subseteq {"limit", "offset"} \cup DOMAIN FilterParams
       /\ \A f \in DOMAIN FilterParams :
             /\ (f \in DOMAIN p) <=> Truthy(FilterParams[f])
             /\ f \in DOMAIN p => p[f] = FilterParams[f]

C8_Witness ==
    /\ op.name = "get_audit_logs"
    /\ calls # <<>>
    /\ op.action = <<"s">>
    /\ op.subject = None
    /\ op.start_date = None
    /\ op.end_date = <<"s">>
    /\ op.limit = 0
    /\ DOMAIN calls[1].params = {"limit", "offset", "action", "endDate"}

\* The rotation's upload returned and its delete step did not
SecondStepFailed ==
    /\ op.name = "rotate_keys"
    /\ pc = "done"
    /\ Truthy(op.old_key_id)
    /\ "new_key" \in results
    /\ "deleted" \notin results
    /\ outcome # "KeyError"

C10_DeleteAfterUpload ==
    op.name = "rotate_keys"
    => /\ \A i \in 1..Len(calls) :
             calls[i].method = "DELETE" => (i = 2 /\ "new_key" \in results)
       /\ (pc = "done" /\ "new_key" \notin results)
          => /\ outcome \notin {"ok", "none"}
             /\ ~HasDelete
             /\ op.old_key_id \in keys0 => op.old_key_id \in serverKeys

C10_Witness ==
    /\ op.name = "rotate_keys"
    /\ pc = "done"
    /\ "new_key" \notin results
    /\ outcome = "RetryError"
    /\ op.old_key_id = KeyB
    /\ KeyB \in keys0
    /\ KeyB \in serverKeys
    /\ Len(resps) = 4

====
